---- MODULE Spec2Model ----
(***************************************************************************)
(* A model of xs.c: the small-string union `xs` with its 16-byte inline     *)
(* layout and its heap layout (pointer, size, capacity), the reference     *)
(* counter added for copy-on-write, and the operations xs_new, xs_grow,    *)
(* xs_free, xs_concat, xs_trim, xs_cpy.                                    *)
(*                                                                         *)
(* Memory is explicit.  A heap buffer is a record with its state, the      *)
(* number of bytes malloc was asked for and the bytes stored so far; a     *)
(* byte that was never stored reads as U (indeterminate).  Bytes stored    *)
(* past the end of a buffer are kept behind it (so the writer reads them   *)
(* back) and may land in any other live buffer: which one is the           *)
(* allocator's choice, so the model chooses nondeterministically.  A       *)
(* write through NULL, an access to freed memory, a second free, a         *)
(* branch on an indeterminate byte and a memmove of a wrapped-around       *)
(* length leave the C behaviour undefined: the run stops there with        *)
(* `fault` set, and nothing is said of what would follow.                  *)
(*                                                                         *)
(* size_t quantities saturate at Huge; every comparison the code makes is  *)
(* against a quantity well below it.                                       *)
(***************************************************************************)
EXTENDS Integers, Sequences, FiniteSets, TLC

VARIABLES vals,    \* the xs objects of the program, by name
          bufs,    \* heap buffers, by address (their index)
          cnts,    \* heap-allocated reference counters, by address
          fault,   \* "none", or the memory fault that stopped the run
          oob,     \* a store past the end of a heap buffer has happened
          hist,    \* per object: how it was built and what was applied since
          last,    \* the last operation, with what it found before it
          nops     \* operations performed so far

vars == <<vals, bufs, cnts, fault, oob, hist, last, nops>>

---------------------------------------------------------------------------
\* Bounds of the model.

MaxOps == 4

ViewMax == 64

\* Program constants.

NULL == 0

InlineMax == 15

\* An indeterminate byte: malloc'ed memory that was never stored to.
U == -1

Huge == 2^30

Slots == {"a", "b"}

Ascii == [sp |-> 32, x |-> 120]

Rep(n, c) == [i \in 1..n |-> c]

Min(a, b) == IF a <= b THEN a ELSE b

Max(a, b) == IF a >= b THEN a ELSE b

Sat(n) == Min(n, Huge)

\* The strings the program constructs values from.
Inputs ==
    { <<Ascii.sp, Ascii.x, Ascii.sp>>,
      Rep(15, Ascii.x),
      Rep(16, Ascii.x),
      Rep(2, Ascii.sp) \o Rep(15, Ascii.x),
      Rep(31, Ascii.x) }

\* The literals handed to xs_tmp for prefixes and suffixes.
Lits == { <<>>, Rep(8, Ascii.x) }

TrimSets == { <<>>, <<Ascii.sp>>, <<Ascii.x>> }

\* A size_t handed to xs_grow is kept as two 32-bit words, hi * 2^32 + lo:
\* xs_grow passes it to ilog2, whose parameter is a uint32_t.
SizeT(n) == [hi |-> 0, lo |-> n]

\* The lengths the program asks xs_grow for: 40 and 2^32 + 40.
GrowSizes == { SizeT(40), [hi |-> 1, lo |-> 40] }

---------------------------------------------------------------------------
\* The union xs (little-endian, 64-bit).  Byte 15 holds space_left (bits
\* 0-3), is_ptr (bit 4) and flag1 (bit 5).  In the heap layout bytes 8-15
\* hold size (bits 0-53) and capacity (bits 54-59), so the capacity
\* exponent is 4 * space_left + caplo, with caplo the top two bits of
\* byte 14.  refcnt lies behind the 16 bytes.  data holds bytes 0..14 of an
\* inline value; ptr, size and caplo are what a heap value keeps there.

\* xs_literal_empty() names two members of the union, .space_left and
\* .refcnt: the later initializer is the one that counts, it initializes
\* the heap layout and everything it does not name is zero.  So the
\* literal is 24 zero bytes and space_left is 0, not 15.
xs_literal_empty ==
    [ is_ptr |-> FALSE, flag1 |-> FALSE, space_left |-> 0, caplo |-> 0,
      data |-> Rep(15, 0), ptr |-> NULL, size |-> 0, refcnt |-> NULL ]

xs_is_ptr(x) == x.is_ptr

xs_size(x) == IF xs_is_ptr(x) THEN x.size ELSE 15 - x.space_left

CapExp(x) == 4 * x.space_left + x.caplo

xs_capacity(x) ==
    IF xs_is_ptr(x)
    THEN (IF CapExp(x) >= 30 THEN Huge ELSE 2^CapExp(x) - 1)
    ELSE InlineMax

\* The 16 raw bytes of the union, as memcpy(buf, x->data, 16) sees an
\* inline value.
RawBytes(x) ==
    x.data \o << x.space_left + (IF x.is_ptr THEN 16 ELSE 0)
                              + (IF x.flag1 THEN 32 ELSE 0) >>

\* The size bit-field as the bytes of an inline value spell it.
SizeBits(x) ==
    IF x.data[13] # 0 \/ x.data[14] # 0 \/ x.data[15] % 64 # 0
       \/ x.data[12] # 0
    THEN Huge
    ELSE Sat(x.data[9] + 256 * x.data[10] + 65536 * x.data[11])

\* The two low bits of the capacity bit-field, whichever layout is live.
CapLoBits(x) == IF x.is_ptr THEN x.caplo ELSE x.data[15] \div 64

RECURSIVE ilog2(_)
ilog2(n) == IF n <= 1 THEN 0 ELSE 1 + ilog2(n \div 2)

---------------------------------------------------------------------------
\* The heap.  A machine state m is the record of vals, bufs, cnts, fault
\* and oob; an operation yields the set of machine states it may end in.

Mach == [vals |-> vals, bufs |-> bufs, cnts |-> cnts, fault |-> fault, oob |-> oob]

Fault(m, f) == [m EXCEPT !.fault = f]

Live(m, h) == h \in 1..Len(m.bufs) /\ m.bufs[h].st = "live"

\* mem[i+1] is byte i; what was never stored is indeterminate.
Peek(mem, i) == IF i + 1 <= Len(mem) THEN mem[i + 1] ELSE U

Store(mem, off, bytes) ==
    [i \in 1..Max(Len(mem), off + Len(bytes)) |->
        IF i > off /\ i <= off + Len(bytes) THEN bytes[i - off]
        ELSE IF i <= Len(mem) THEN mem[i] ELSE U]

\* malloc(2^e) for a small e, as xs_new and xs_grow call it: the address
\* of the new buffer is Len(m.bufs) + 1.
malloc(m, n) ==
    [m EXCEPT !.bufs = Append(@, [st |-> "live", len |-> n, mem |-> <<>>])]

\* A store of bytes at offset off of buffer h.  What falls past the end of
\* the buffer is kept behind it and lands either in memory nobody owns or
\* at the start of another live buffer.
WriteHeap(m, h, off, bytes) ==
    IF m.fault # "none" THEN {m}
    ELSE IF h = NULL THEN {Fault(m, "null_deref")}
    ELSE IF ~Live(m, h) THEN {Fault(m, "use_after_free")}
    ELSE LET b == m.bufs[h]
             m1 == [m EXCEPT !.bufs[h].mem = Store(b.mem, off, bytes)]
         IN IF off + Len(bytes) <= b.len THEN {m1}
            ELSE LET from == Max(off, b.len)
                     excess == SubSeq(bytes, from - off + 1, Len(bytes))
                     m2 == [m1 EXCEPT !.oob = TRUE]
                 IN {m2} \cup
                    { [m2 EXCEPT !.bufs[k].mem = Store(@, from - b.len, excess)] :
                        k \in {j \in 1..Len(m.bufs) : j # h /\ Live(m, j)} }

\* free(p)
free(m, h) ==
    IF m.fault # "none" \/ h = NULL THEN m
    ELSE IF ~Live(m, h) THEN Fault(m, "double_free")
    ELSE [m EXCEPT !.bufs[h].st = "freed"]

\* The bytes [off, off+n) behind pointer h, as memcpy or memmove read them.
ReadHeap(m, h, off, n) ==
    IF Live(m, h) THEN [i \in 1..n |-> Peek(m.bufs[h].mem, off + i - 1)]
    ELSE Rep(n, U)

\* strlen(p): the index of the first zero byte; -1 when an indeterminate
\* byte comes first.
RECURSIVE strlenFrom(_, _)
strlenFrom(mem, i) ==
    IF Peek(mem, i) = 0 THEN i
    ELSE IF Peek(mem, i) = U THEN -1
    ELSE strlenFrom(mem, i + 1)

Pow2Sat(e) == IF e >= 30 THEN Huge ELSE 2^e

---------------------------------------------------------------------------
\* Accessors.

\* The first n bytes behind xs_data(x).
Data(m, x, n) ==
    IF xs_is_ptr(x) THEN ReadHeap(m, x.ptr, 0, n)
    ELSE SubSeq(RawBytes(x), 1, n)

\* The observable content: the xs_size(x) bytes behind xs_data(x).
Content(m, x) == Data(m, x, Min(xs_size(x), IF xs_is_ptr(x) THEN ViewMax ELSE 15))

---------------------------------------------------------------------------
\* A faulty variant of NewHeap that leaves the size field as it was: a
\* property that speaks of the size of a constructed value must notice it.
NewHeapStaleSize(m, p) ==
    LET e == ilog2(Len(p) + 1) + 1
        m1 == malloc(m, Pow2Sat(e))
        h == Len(m1.bufs)
    IN [ m |-> [m1 EXCEPT !.bufs[h].mem = p \o <<0>>],
         x |-> [xs_literal_empty EXCEPT
                   !.space_left = e \div 4, !.caplo = e % 4,
                   !.is_ptr = TRUE, !.ptr = h] ]

\* The heap branch of xs_new: the capacity, the size, the flag, the buffer
\* of 2^capacity bytes and the len bytes of p copied into it.
NewHeap(m, p) ==
    LET len == Len(p) + 1
        e == ilog2(len) + 1
        m1 == malloc(m, Pow2Sat(e))
        h == Len(m1.bufs)
    IN [ m |-> [m1 EXCEPT !.bufs[h].mem = p \o <<0>>],
         x |-> [xs_literal_empty EXCEPT
                   !.space_left = e \div 4, !.caplo = e % 4,
                   !.size = len - 1, !.is_ptr = TRUE, !.ptr = h] ]

\* xs_new(x, p): the new value and the machine state.
xs_new(m, p) ==
    LET len == Len(p) + 1 IN
    IF len > 16
    THEN NewHeap(m, p)
    ELSE [ m |-> m,
           x |-> [xs_literal_empty EXCEPT
                     !.data = p \o Rep(15 - Len(p), 0),
                     !.space_left = 15 - (len - 1)] ]

\* xs_tmp(lit): an inline temporary.
xs_tmp(lit) == xs_new([bufs |-> <<>>], lit).x

\* realloc(p, n): the buffer grows where it is, or moves and the old one
\* is freed.
realloc(m, h, n) ==
    IF m.fault # "none" THEN {[m |-> m, h |-> h]}
    ELSE IF h = NULL THEN {[m |-> malloc(m, n), h |-> Len(m.bufs) + 1]}
    ELSE IF ~Live(m, h) THEN {[m |-> Fault(m, "use_after_free"), h |-> h]}
    ELSE { [m |-> [m EXCEPT !.bufs[h].len = n], h |-> h],
           [m |-> [malloc(m, n) EXCEPT
                      !.bufs[h].st = "freed",
                      !.bufs[Len(m.bufs) + 1].mem =
                          SubSeq(m.bufs[h].mem, 1,
                                 Min(Len(m.bufs[h].mem), Min(m.bufs[h].len, n)))],
            h |-> Len(m.bufs) + 1] }

\* The conversion of a size_t argument to the uint32_t parameter of ilog2:
\* the low 32 bits.
Uint32(len) == len.lo

\* `len <= xs_capacity(x)` for a two-word len: with a high word the
\* capacity 2^e - 1 reaches len only when 2^(e - 32) > hi.
LeqCapacity(len, x) ==
    IF len.hi = 0 THEN len.lo <= xs_capacity(x)
    ELSE xs_is_ptr(x) /\ CapExp(x) >= 32 /\ Pow2Sat(CapExp(x) - 32) > len.hi

\* xs_grow(x, len): the set of outcomes [m, x].
xs_grow(m, x, len) ==
    IF m.fault # "none" \/ LeqCapacity(len, x) THEN {[m |-> m, x |-> x]}
    ELSE LET e == ilog2(Uint32(len)) + 1 IN
         IF xs_is_ptr(x)
         THEN { [m |-> r.m,
                 x |-> [x EXCEPT !.ptr = r.h, !.is_ptr = TRUE,
                                 !.space_left = e \div 4, !.caplo = e % 4]] :
                  r \in realloc(m, x.ptr, Pow2Sat(e)) }
         ELSE LET m1 == malloc(m, Pow2Sat(e))
                  h == Len(m1.bufs)
              IN { [m |-> [m1 EXCEPT !.bufs[h].mem = RawBytes(x)],
                    x |-> [x EXCEPT !.ptr = h, !.size = SizeBits(x),
                                    !.data = Rep(15, 0), !.is_ptr = TRUE,
                                    !.space_left = e \div 4, !.caplo = e % 4]] }

xs_newempty == xs_literal_empty

\* xs_free(x)
xs_free(m, x) ==
    [ m |-> IF xs_is_ptr(x) THEN free(m, x.ptr) ELSE m, x |-> xs_newempty ]

---------------------------------------------------------------------------
\* The test `x->flag1 && x->refcnt && *(x->refcnt) > 0` of xs_concat and
\* xs_trim.  It reads the counter only when flag1 and refcnt are set.
ReadsFreedCnt(m, x) ==
    x.flag1 /\ x.refcnt # NULL /\ m.cnts[x.refcnt].st = "freed"

IsShared(m, x) ==
    x.flag1 /\ x.refcnt # NULL /\ m.cnts[x.refcnt].val > 0

\* `*(x->refcnt) -= 1; if (*(x->refcnt) == 0) { free(x->refcnt); ... }`
DecRef(m, r) ==
    [m EXCEPT !.cnts[r] = [st |-> IF @.val = 1 THEN "freed" ELSE "live",
                           val |-> @.val - 1]]

RefAfterDec(m, r) == IF m.cnts[r].val = 1 THEN NULL ELSE r

\* malloc(capacity) of xs_concat's private copy, capacity = 2^e - 1.  A
\* request beyond the 2^47 bytes of user address space returns NULL; one
\* beyond 2^30 bytes may or may not be granted.
mallocCapacity(m, e) ==
    IF e >= 47 THEN {[m |-> m, h |-> NULL]}
    ELSE {[m |-> malloc(m, Pow2Sat(e) - 1), h |-> Len(m.bufs) + 1]}
         \cup (IF e >= 30 THEN {[m |-> m, h |-> NULL]} ELSE {})

\* A heap value whose size reaches past everything stored behind its
\* pointer: reading its content walks off the buffer.
Wild(m, x) ==
    /\ xs_is_ptr(x) /\ Live(m, x.ptr)
    /\ \/ xs_size(x) > ViewMax
       \/ xs_size(x) > Max(m.bufs[x.ptr].len, Len(m.bufs[x.ptr].mem))

\* An inline value from its 16 raw bytes (refcnt kept from x).
FromRaw(x, raw) ==
    [x EXCEPT !.data = SubSeq(raw, 1, 15),
              !.space_left = raw[16] % 16,
              !.is_ptr = (raw[16] \div 16) % 2 = 1,
              !.flag1 = (raw[16] \div 32) % 2 = 1]

\* `string->size = n` stored into the 16 raw bytes: bits 0-53 of bytes 8-15.
WithSizeBits(raw, n) ==
    [i \in 1..16 |->
        IF i = 9 THEN n % 256
        ELSE IF i = 10 THEN (n \div 256) % 256
        ELSE IF i \in 11..14 THEN 0
        ELSE IF i = 15 THEN (raw[15] \div 64) * 64
        ELSE raw[i]]

\* xs_concat, needed <= capacity: the value is rewritten where it is.
ConcatInPlace(m, s, pre, suf, needed) ==
    LET x == m.vals[s]
        size == xs_size(x)
    IN IF ~xs_is_ptr(x)
       THEN LET raw == Store(RawBytes(x), 0, pre \o Data(m, x, size) \o suf)
                y == FromRaw(x, raw)
            IN {[m EXCEPT !.vals[s] = [y EXCEPT !.space_left = (15 - needed) % 16]]}
       ELSE IF ReadsFreedCnt(m, x) THEN {Fault(m, "use_after_free")}
       ELSE IF IsShared(m, x) /\ xs_size(x) > ViewMax THEN {Fault(m, "wild_read")}
       ELSE IF IsShared(m, x)
       THEN UNION {
              LET m1 == DecRef(r.m, x.refcnt)
                  y == [x EXCEPT !.flag1 = FALSE, !.ptr = r.h,
                                 !.refcnt = RefAfterDec(m, x.refcnt),
                                 !.space_left = (15 - needed) % 16]
                  m2 == [m1 EXCEPT !.vals[s] = y]
              IN WriteHeap(m2, r.h, 0, pre \o ReadHeap(m2, r.h, 0, size) \o suf)
              : r \in mallocCapacity(m, CapExp(x)) }
       ELSE IF ~Live(m, x.ptr) THEN {Fault(m, "use_after_free")}
       ELSE IF Wild(m, x) THEN {Fault(m, "wild_read")}
       ELSE WriteHeap([m EXCEPT !.vals[s].space_left = (15 - needed) % 16],
                      x.ptr, 0, pre \o Data(m, x, size) \o suf)

\* xs_concat, needed > capacity: the result is built in a temporary, the
\* old value is released and the temporary is assigned to it.
ConcatRebuild(m, s, pre, suf, needed) ==
    LET x == m.vals[s]
        size == xs_size(x)
        bytes == pre \o Data(m, x, size) \o suf
    IN IF xs_is_ptr(x) /\ ~Live(m, x.ptr) THEN {Fault(m, "use_after_free")}
       ELSE IF Wild(m, x) THEN {Fault(m, "wild_read")}
       ELSE IF ReadsFreedCnt(m, x) THEN {Fault(m, "use_after_free")}
       ELSE UNION {
              LET tmps == g.x
                  m1 == IF xs_is_ptr(tmps)
                        THEN [g.m EXCEPT !.bufs[tmps.ptr].mem = Store(@, 0, bytes)]
                        ELSE g.m
                  m2 == IF IsShared(m, x) THEN DecRef(m1, x.refcnt)
                        ELSE xs_free(m1, x).m
                  y == IF xs_is_ptr(tmps)
                       THEN [tmps EXCEPT !.flag1 = FALSE, !.size = needed]
                       ELSE LET raw == Store(RawBytes(tmps), 0, bytes)
                                r2 == [raw EXCEPT ![16] = raw[16] - 32 * ((raw[16] \div 32) % 2)]
                            IN FromRaw(tmps, WithSizeBits(r2, needed))
              IN {IF m2.fault # "none" THEN m2 ELSE [m2 EXCEPT !.vals[s] = y]}
              : g \in xs_grow(m, xs_literal_empty, SizeT(needed)) }

\* xs_concat(string, prefix, suffix): the set of machine states it may
\* end in; prefix and suffix are values that do not alias string.
xs_concat(m, s, prefix, suffix) ==
    LET x == m.vals[s]
        pres == xs_size(prefix)
        sufs == xs_size(suffix)
        needed == Sat(xs_size(x) + pres + sufs)
        pre == Data(m, prefix, pres)
        suf == Data(m, suffix, sufs + 1)
    IN IF needed <= xs_capacity(x)
       THEN ConcatInPlace(m, s, pre, suf, needed)
       ELSE ConcatRebuild(m, s, pre, suf, needed)

---------------------------------------------------------------------------
\* xs_trim's two scans: the first index whose byte is not in the set, and
\* the length left once the trailing bytes of the set are dropped.
\* A faulty variant of LeadRun that gives up after one byte of the set: a
\* property that compares one trim with two must notice it.
LeadRunOne(c, T, i) ==
    IF i < Len(c) /\ c[i + 1] \in T THEN i + 1 ELSE i

RECURSIVE LeadRun(_, _, _)
LeadRun(c, T, i) ==
    IF i < Len(c) /\ c[i + 1] \in T THEN LeadRun(c, T, i + 1) ELSE i

RECURSIVE EndRun(_, _, _)
EndRun(c, T, n) ==
    IF n > 0 /\ c[n] \in T THEN EndRun(c, T, n - 1) ELSE n

\* `if (orig[slen]) orig[slen] = 0;` on heap buffer h.  Inside the buffer
\* the byte ends up zero whatever it was.  Past its end an indeterminate
\* byte is either zero already or is overwritten by a store out of bounds.
Terminate(m, h, k) ==
    IF m.fault # "none" THEN {m}
    ELSE LET b == m.bufs[h]
             v == Peek(b.mem, k)
             z == [m EXCEPT !.bufs[h].mem = Store(@, k, <<0>>)]
         IN IF v = 0 THEN {m}
            ELSE IF k < b.len THEN {z}
            ELSE (IF v = U THEN {z} ELSE {}) \cup WriteHeap(m, h, k, <<0>>)

\* xs_trim(x, trimset): the set of machine states it may end in.
xs_trim(m, s, trimset) ==
    LET x == m.vals[s]
        T == {trimset[k] : k \in 1..Len(trimset)}
        size == xs_size(x)
        c == Data(m, x, size)
        i == LeadRun(c, T, 0)
        e == EndRun(c, T, size)
        slen == e - i
        span == SubSeq(c, i + 1, e)
    IN IF trimset = <<>> THEN {m}
       ELSE IF xs_is_ptr(x) /\ x.ptr = NULL THEN {Fault(m, "null_deref")}
       ELSE IF xs_is_ptr(x) /\ ~Live(m, x.ptr) THEN {Fault(m, "use_after_free")}
       ELSE IF Wild(m, x) THEN {Fault(m, "wild_read")}
       ELSE IF (i < size /\ c[i + 1] = U) \/ (e > 0 /\ c[e] = U)
            THEN {Fault(m, "indeterminate")}
       ELSE IF ReadsFreedCnt(m, x) THEN {Fault(m, "use_after_free")}
       ELSE IF IsShared(m, x) /\ strlenFrom(m.bufs[x.ptr].mem, 0) < 0
            THEN {Fault(m, "indeterminate")}
       \* slen -= i wraps around when every byte was in the set: memmove is
       \* asked to copy 2^64 - i bytes
       ELSE IF slen < 0 THEN {Fault(m, "wild_memmove")}
       ELSE IF ~xs_is_ptr(x)
       THEN LET raw == Store(RawBytes(x), 0, span)
                raw2 == IF raw[slen + 1] # 0 THEN [raw EXCEPT ![slen + 1] = 0] ELSE raw
            IN {[m EXCEPT !.vals[s] =
                    [FromRaw(x, raw2) EXCEPT !.space_left = 15 - slen]]}
       ELSE IF IsShared(m, x)
       THEN LET m1 == DecRef(malloc(m, strlenFrom(m.bufs[x.ptr].mem, 0)), x.refcnt)
                h == Len(m1.bufs)
                y == [x EXCEPT !.ptr = h, !.size = slen,
                               !.refcnt = RefAfterDec(m, x.refcnt)]
                m2 == [m1 EXCEPT !.vals[s] = y]
            IN UNION {Terminate(w, h, slen) : w \in WriteHeap(m2, h, 0, span)}
       ELSE UNION {Terminate(w, x.ptr, slen) :
                     w \in WriteHeap([m EXCEPT !.vals[s].size = slen], x.ptr, 0, span)}

\* A faulty variant of CpyInline that copies the bytes and leaves the
\* length of dest as it was: a property that speaks of the size of a copy
\* must notice it.
CpyInlineStaleLength(m, dest, src) ==
    [FromRaw(dest, Store(RawBytes(dest), 0, Data(m, src, xs_size(src))))
        EXCEPT !.is_ptr = FALSE]

\* The inline branch of xs_cpy: the xs_size(src) bytes of src are copied
\* into dest, which is made inline with the length of src.
CpyInline(m, dest, src) ==
    [FromRaw(dest, Store(RawBytes(dest), 0, Data(m, src, xs_size(src))))
        EXCEPT !.is_ptr = FALSE, !.space_left = 15 - xs_size(src)]

\* xs_cpy(dest, src): src is the object named s, dest a value being built.
xs_cpy(m, dest, s) ==
    LET src == m.vals[s] IN
    IF xs_is_ptr(src)
    THEN LET y == [dest EXCEPT !.is_ptr = TRUE, !.ptr = src.ptr, !.flag1 = TRUE,
                               !.size = xs_size(src), !.caplo = CapLoBits(dest),
                               !.data = Rep(15, 0)]
         IN IF src.refcnt = NULL
            THEN LET r == Len(m.cnts) + 1 IN
                 [ m |-> [m EXCEPT !.cnts = Append(@, [st |-> "live", val |-> 1]),
                                   !.vals[s].refcnt = r],
                   x |-> [y EXCEPT !.refcnt = r] ]
            ELSE IF m.cnts[src.refcnt].st = "freed"
            THEN [ m |-> Fault(m, "use_after_free"), x |-> dest ]
            ELSE [ m |-> [m EXCEPT !.cnts[src.refcnt].val = @ + 1],
                   x |-> [y EXCEPT !.refcnt = src.refcnt] ]
    ELSE [ m |-> m, x |-> CpyInline(m, dest, src) ]

---------------------------------------------------------------------------
\* The program: any sequence of the operations on the objects of Slots.

\* hist[s]: born is "new" (xs_new), "cpy" (xs_cpy) or "none"; from is the
\* object s was copied from; input the string s was given; clean says the
\* source of the copy was freshly constructed; ops the operations applied
\* to s since.
NoHist == [born |-> "none", from |-> "", input |-> <<>>, clean |-> FALSE, ops |-> {}]

\* The buffer of x is allocated, or x has none.
Allocated(m, x) == ~xs_is_ptr(x) \/ Live(m, x.ptr)

Snapshot ==
    [v |-> vals,
     c |-> [s \in Slots |-> Content(Mach, vals[s])],
     live |-> [s \in Slots |-> Allocated(Mach, vals[s])]]

Op(op, s, p, q, n) ==
    [op |-> op, s |-> s, p |-> p, q |-> q, n |-> n, before |-> Snapshot,
     prev |-> [op |-> last.op, s |-> last.s, p |-> last.p]]

\* The object s is built anew: whoever was copied from it no longer is.
Born(s, h) ==
    [t \in Slots |->
        IF t = s THEN h
        ELSE IF hist[t].from = s THEN [hist[t] EXCEPT !.from = ""]
        ELSE hist[t]]

Applied(s, op) == [hist EXCEPT ![s].ops = @ \cup {op}]

Commit(m, h, l) ==
    /\ vals' = m.vals
    /\ bufs' = m.bufs
    /\ cnts' = m.cnts
    /\ fault' = m.fault
    /\ oob' = m.oob
    /\ hist' = h
    /\ last' = l
    /\ nops' = nops + 1

Running == fault = "none" /\ nops < MaxOps

Init ==
    /\ vals = [s \in Slots |-> xs_literal_empty]
    /\ bufs = <<>>
    /\ cnts = <<>>
    /\ fault = "none"
    /\ oob = FALSE
    /\ hist = [s \in Slots |-> NoHist]
    /\ last = [op |-> "init", s |-> "", p |-> <<>>, q |-> <<>>, n |-> SizeT(0),
               before |-> [v |-> [s \in Slots |-> xs_literal_empty],
                           c |-> [s \in Slots |-> Rep(15, 0)],
                           live |-> [s \in Slots |-> TRUE]],
               prev |-> [op |-> "none", s |-> "", p |-> <<>>]]
    /\ nops = 0

Construct(s, p) ==
    /\ Running
    /\ LET r == xs_new(Mach, p) IN
       Commit([r.m EXCEPT !.vals[s] = r.x],
              Born(s, [born |-> "new", from |-> "", input |-> p, clean |-> FALSE,
                       ops |-> {}]),
              Op("construct", s, p, <<>>, SizeT(0)))

CopyConstruct(d, s) ==
    /\ Running
    /\ d # s
    /\ LET r == xs_cpy(Mach, xs_literal_empty, s) IN
       Commit(IF r.m.fault # "none" THEN r.m ELSE [r.m EXCEPT !.vals[d] = r.x],
              Born(d, [born |-> "cpy", from |-> s, input |-> Content(Mach, vals[s]),
                       clean |-> hist[s].born = "new" /\ hist[s].ops = {},
                       ops |-> {}]),
              Op("cpy", d, <<>>, <<>>, SizeT(0)))

Grow(s, n) ==
    /\ Running
    /\ \E r \in xs_grow(Mach, vals[s], n) :
         Commit(IF r.m.fault # "none" THEN r.m ELSE [r.m EXCEPT !.vals[s] = r.x],
                Applied(s, "grow"), Op("grow", s, <<>>, <<>>, n))

Concat(s, p, q) ==
    /\ Running
    /\ \E m \in xs_concat(Mach, s, xs_tmp(p), xs_tmp(q)) :
         Commit(m, Applied(s, "concat"), Op("concat", s, p, q, SizeT(0)))

Trim(s, trimset) ==
    /\ Running
    /\ \E m \in xs_trim(Mach, s, trimset) :
         Commit(m, Applied(s, "trim"), Op("trim", s, trimset, <<>>, SizeT(0)))

Release(s) ==
    /\ Running
    /\ LET r == xs_free(Mach, vals[s]) IN
       Commit(IF r.m.fault # "none" THEN r.m ELSE [r.m EXCEPT !.vals[s] = r.x],
              Applied(s, "release"), Op("release", s, <<>>, <<>>, SizeT(0)))

Next ==
    \/ \E s \in Slots, p \in Inputs : Construct(s, p)
    \/ \E d \in Slots, s \in Slots : CopyConstruct(d, s)
    \/ \E s \in Slots, n \in GrowSizes : Grow(s, n)
    \/ \E s \in Slots, p \in Lits, q \in Lits : Concat(s, p, q)
    \/ \E s \in Slots, T \in TrimSets : Trim(s, T)
    \/ \E s \in Slots : Release(s)

Spec == Init /\ [][Next]_vars

---------------------------------------------------------------------------
\* What the claims speak of.

\* The content with its leading and trailing bytes of T removed.
Trimmed(c, T) ==
    LET keep == {k \in 1..Len(c) : c[k] \notin T} IN
    IF keep = {} THEN <<>>
    ELSE SubSeq(c, CHOOSE k \in keep : \A j \in keep : k <= j,
                   CHOOSE k \in keep : \A j \in keep : k >= j)

SetOf(q) == {q[k] : k \in 1..Len(q)}

\* b is a copy of a, and a was freshly constructed from a string of more
\* than 15 bytes when it was copied.
CopyOfLong(b, a) ==
    /\ a # b
    /\ hist[b].born = "cpy" /\ hist[b].from = a /\ hist[b].clean
    /\ hist[a].born = "new" /\ Len(hist[a].input) > 15

Before(s) == last.before.v[s]

\* C1: a = construct(s) with s longer than 15 bytes, b = copyConstruct(a);
\* whatever concatenate and trim operations are then applied to b, the
\* content of a is s and its size is length(s).
C1_CopyMutated ==
    \A a \in Slots, b \in Slots :
        (CopyOfLong(b, a) /\ hist[a].ops = {}
            /\ hist[b].ops \subseteq {"concat", "trim"})
        => /\ Content(Mach, vals[a]) = hist[a].input
           /\ xs_size(vals[a]) = Len(hist[a].input)

\* C2: a = construct(s) with s longer than 15 bytes, b = copyConstruct(a);
\* whatever concatenate and trim operations are then applied to a, the
\* content of b is s, its size is length(s) and its buffer is not freed.
C2_SourceMutated ==
    \A a \in Slots, b \in Slots :
        (CopyOfLong(b, a) /\ hist[b].ops = {}
            /\ hist[a].ops \subseteq {"concat", "trim"})
        => /\ Live(Mach, vals[b].ptr)
           /\ Content(Mach, vals[b]) = hist[a].input
           /\ xs_size(vals[b]) = Len(hist[a].input)

\* C3: after concatenate(v, p, q) the content of v is p, then the old
\* content of v, then q, and its size is the sum of the three sizes.
C3_ConcatResult ==
    (last.op = "concat" /\ last.before.c[last.s] # <<U>>)
    => /\ fault = "none"
       /\ Content(Mach, vals[last.s]) = last.p \o last.before.c[last.s] \o last.q
       /\ xs_size(vals[last.s]) =
             xs_size(Before(last.s)) + Len(last.p) + Len(last.q)

\* C4: after trim(v, T) with T not empty the content of v is the old
\* content without its leading and trailing bytes of T (empty when every
\* byte is in T) and its size is the length of what is left; with an empty
\* T the value is unchanged.
C4_TrimResult ==
    (last.op = "trim" /\ U \notin SetOf(last.before.c[last.s]))
    => /\ fault = "none"
       /\ Content(Mach, vals[last.s]) =
             Trimmed(last.before.c[last.s], SetOf(last.p))
       /\ xs_size(vals[last.s]) =
             Len(Trimmed(last.before.c[last.s], SetOf(last.p)))
       /\ (last.p = <<>> => vals[last.s] = Before(last.s))

C6_CapacityShape ==
    \A s \in Slots :
        IF xs_is_ptr(vals[s]) THEN CapExp(vals[s]) >= 4
        ELSE xs_capacity(vals[s]) = 15

\* The values that point at the buffer v points at.
Pointing(v) == {t \in Slots : xs_is_ptr(vals[t]) /\ vals[t].ptr = vals[v].ptr}

\* C7: the counter of a heap buffer, when there is one, holds the number
\* of values that point at the buffer.
C7_RefcountAccurate ==
    \A s \in Slots :
        (xs_is_ptr(vals[s]) /\ vals[s].refcnt # NULL
            /\ cnts[vals[s].refcnt].st = "live")
        => cnts[vals[s].refcnt].val = Cardinality(Pointing(s))

\* C8: release frees the buffer of a heap value only when no other value
\* points at it: a buffer another value still points at stays allocated.
C8_ReleaseShared ==
    \A t \in Slots :
        (/\ last.op = "release" /\ t # last.s
         /\ xs_is_ptr(Before(last.s)) /\ xs_is_ptr(Before(t))
         /\ Before(t).ptr = Before(last.s).ptr
         /\ last.before.live[t])
        => Live(Mach, vals[t].ptr)

\* C9: a is on the heap and b = copyConstruct(a); after grow(a, n) with n
\* above the capacity of a, the pointer of b is that of a live buffer, and
\* the content and size of b are what they were.
C9_GrowSafety ==
    \A b \in Slots :
        (/\ last.op = "grow"
         /\ hist[b].born = "cpy" /\ hist[b].from = last.s
         /\ xs_is_ptr(Before(b)) /\ Before(b).ptr = Before(last.s).ptr
         /\ last.before.live[b]
         /\ ~LeqCapacity(last.n, Before(last.s)))
        => /\ Live(Mach, vals[b].ptr)
           /\ Content(Mach, vals[b]) = last.before.c[b]
           /\ xs_size(vals[b]) = xs_size(Before(b))

\* b is a copy of a, and a was freshly constructed from a string of at
\* most 15 bytes when it was copied.
CopyOfShort(b, a) ==
    /\ a # b
    /\ hist[b].born = "cpy" /\ hist[b].from = a /\ hist[b].clean
    /\ hist[a].born = "new" /\ Len(hist[a].input) <= 15

\* The object is inline and holds the string c.
InlineWith(s, c) ==
    /\ ~xs_is_ptr(vals[s])
    /\ xs_size(vals[s]) = Len(c)
    /\ Content(Mach, vals[s]) = c

\* C10: a copyConstruct that completes gives, for a heap source, a value
\* with the pointer, the size and so the content of the source; for an
\* inline source, an inline value with the size and the content of the
\* source.  The inline copy shares nothing with its source: whatever is
\* then done to one of the two, the other is the string it was.
C10_CopyConstruct ==
    /\ (last.op = "cpy" /\ fault = "none")
       => LET d == last.s
              s == hist[last.s].from
          IN /\ xs_size(vals[d]) = xs_size(Before(s))
             /\ Content(Mach, vals[d]) = last.before.c[s]
             /\ IF xs_is_ptr(Before(s))
                THEN xs_is_ptr(vals[d]) /\ vals[d].ptr = Before(s).ptr
                ELSE ~xs_is_ptr(vals[d])
    /\ \A a \in Slots, b \in Slots :
          CopyOfShort(b, a)
          => /\ (hist[a].ops = {} => InlineWith(a, hist[a].input))
             /\ (hist[b].ops = {} => InlineWith(b, hist[a].input))

\* An inline value was copied, the source was then turned into a longer
\* heap value by a concatenation, and the copy is the string it was.
C10_Witness ==
    \E a \in Slots, b \in Slots :
        /\ CopyOfShort(b, a) /\ hist[b].ops = {}
        /\ hist[a].ops = {"concat"} /\ xs_is_ptr(vals[a])
        /\ fault = "none"
        /\ InlineWith(b, hist[a].input)
        /\ Content(Mach, vals[a]) # hist[a].input

\* The last two operations were trim on the same value with the same set.
TrimmedTwice ==
    /\ last.op = "trim" /\ last.prev.op = "trim"
    /\ last.prev.s = last.s /\ last.prev.p = last.p

C12_ConcatEmpty ==
    (/\ last.op = "concat" /\ last.p = <<>> /\ last.q = <<>>
     /\ last.before.live[last.s]
     /\ U \notin SetOf(last.before.c[last.s]))
    => /\ fault = "none"
       /\ Content(Mach, vals[last.s]) = last.before.c[last.s]
       /\ xs_size(vals[last.s]) = xs_size(Before(last.s))

\* The least k with 2^k >= n.
RECURSIVE CeilLog2(_)
CeilLog2(n) == IF n <= 1 THEN 0 ELSE 1 + CeilLog2((n + 1) \div 2)

\* ceil(log2(len + 1)) for a two-word len.
GrowExponent(len) ==
    IF len.hi = 0 THEN CeilLog2(len.lo + 1) ELSE 32 + CeilLog2(len.hi + 1)

\* C13: grow(v, n) leaves v as it was when capacity(v) >= n; otherwise v
\* is on the heap with capacity 2^ceil(log2(n + 1)) - 1, which is >= n.
C13_Grow ==
    (last.op = "grow" /\ last.before.live[last.s])
    => /\ fault = "none"
       /\ IF LeqCapacity(last.n, Before(last.s))
          THEN vals[last.s] = Before(last.s)
          ELSE /\ xs_is_ptr(vals[last.s])
               /\ CapExp(vals[last.s]) = GrowExponent(last.n)
               /\ LeqCapacity(last.n, vals[last.s])

\* C14: for a string s of more than 15 bytes, the capacity of construct(s)
\* is the least 2^k - 1 that is >= length(s), also when length(s) is itself
\* 2^k - 1, and the value has no reference counter.
C14_ConstructCapacity ==
    (last.op = "construct" /\ Len(last.p) > 15)
    => /\ xs_is_ptr(vals[last.s])
       /\ CapExp(vals[last.s]) = CeilLog2(Len(last.p) + 1)
       /\ vals[last.s].refcnt = NULL

\* C15: flag1 is set on a value exactly when the value was made by
\* copyConstruct from a heap value and no mutation has given it a buffer
\* of its own since: only copies carry it, a copy nothing was applied to
\* carries it, and it is clear once a trim or a concatenate has moved the
\* value to a private buffer.
C15_SharedFlag ==
    \A s \in Slots :
        /\ vals[s].flag1 => hist[s].born = "cpy"
        /\ (hist[s].born = "cpy" /\ hist[s].ops = {} /\ xs_is_ptr(vals[s]))
           => vals[s].flag1
        /\ (/\ last.s = s /\ last.op \in {"trim", "concat"} /\ fault = "none"
            /\ xs_is_ptr(Before(s)) /\ xs_is_ptr(vals[s])
            /\ vals[s].ptr # Before(s).ptr)
           => ~vals[s].flag1

\* C16: the buffer of every heap value holds a zero byte at index size(v),
\* and that index is inside the allocated buffer.
C16_NullTerminated ==
    \A s \in Slots :
        (xs_is_ptr(vals[s]) /\ Live(Mach, vals[s].ptr))
        => /\ xs_size(vals[s]) < bufs[vals[s].ptr].len
           /\ Peek(bufs[vals[s].ptr].mem, xs_size(vals[s])) = 0

\* C17: size(v) <= capacity(v) for every value, and the allocated buffer
\* of a heap value has at least capacity(v) + 1 bytes.
C17_SizeWithinCapacity ==
    \A s \in Slots :
        /\ xs_size(vals[s]) <= xs_capacity(vals[s])
        /\ (xs_is_ptr(vals[s]) /\ Live(Mach, vals[s].ptr))
           => bufs[vals[s].ptr].len >= xs_capacity(vals[s]) + 1

\* C18: after grow(v, n) the size and the content of v are what they
\* were, also when grow moves v from the inline to the heap layout.
C18_GrowPreserves ==
    (/\ last.op = "grow" /\ last.before.live[last.s]
     /\ U \notin SetOf(last.before.c[last.s]))
    => /\ fault = "none"
       /\ xs_size(vals[last.s]) = xs_size(Before(last.s))
       /\ Content(Mach, vals[last.s]) = last.before.c[last.s]

\* C19: b = copyConstruct(a) for a heap value a has the capacity of a.
C19_CopyCapacity ==
    (/\ last.op = "cpy" /\ fault = "none"
     /\ xs_is_ptr(Before(hist[last.s].from)))
    => xs_capacity(vals[last.s]) = xs_capacity(vals[hist[last.s].from])

\* C20: no value points at a freed buffer, no value's reference counter
\* pointer is that of a freed counter, and nothing is freed twice.
C20_NoDangling ==
    /\ fault # "double_free"
    /\ \A s \in Slots :
          xs_is_ptr(vals[s])
          => /\ vals[s].ptr \in 1..Len(bufs) => bufs[vals[s].ptr].st # "freed"
             /\ vals[s].refcnt # NULL => cnts[vals[s].refcnt].st # "freed"

====
